---- MODULE Spec2Model ----
(***************************************************************************)
(* Model of the master-data administration console (src/app.js, the        *)
(* current server: lines 1-384; lines 386-580 are a superseded copy of the *)
(* same server without the upload and retention routes).                   *)
(*                                                                         *)
(*   Spec       the CSV import pipeline (POST /masters/upload); the clock  *)
(*              stands still.                                              *)
(*   SpecTyped  the import of files with an is_active or an inch column.   *)
(*   SpecPair   several imports interleaving at their awaits.              *)
(*   SpecStore  the import pipeline with a millisecond clock, the          *)
(*              failed-row retention store's sweep timer and the download  *)
(*              route.                                                     *)
(*   SpecReq    the request intake of the routes that take a table name or *)
(*              an id from the client, and the list of all masters: list,  *)
(*              detail read, toggle call, upload intake up to its column   *)
(*              lookup.                                                    *)
(***************************************************************************)
EXTENDS Integers, Sequences, FiniteSets, TLC

\* ---------------------------------------------------------------- bounds
MaxUploads      == 1       \* Spec, SpecReq: upload requests of one run
MaxRecords      == 3       \* Spec: data rows of one uploaded CSV file
MaxStoreUploads == 2       \* SpecStore: upload requests (they interleave)
MaxStoreRecords == 1       \* SpecStore, SpecReq: data rows of one uploaded CSV file
MaxTypedRecords == 2       \* SpecTyped: data rows of one uploaded CSV file
MaxPairUploads  == 2       \* SpecPair: upload requests (they interleave)
MaxPairRecords  == 2       \* SpecPair: data rows of one uploaded CSV file
MaxCalls        == 2       \* SpecReq: detail reads and toggle calls of one run
TickMs          == 30000   \* SpecStore: granularity of the clock
MaxTime         == 690000  \* SpecStore: the clock stops here

\* ------------------------------------------------------ program constants
RETENTION_MS      == 10 * 60 * 1000   \* app.js:25
SWEEP_INTERVAL_MS == 60 * 1000        \* app.js:27

\* A JavaScript null / undefined where a string is expected.
Null == "<null>"

\* app.js:50-64. The table names of MASTERS.
ALLOWED_TABLES ==
    { "LCD_master", "LED_master", "LED_others_master", "matrix_switcher_master",
      "TVwall_controller_master", "STUDIA_master", "e_board_stand_master",
      "OPS_master", "dongle_master", "player_master" }

\* Table names a client sends: two allowed tables of different shape, a name
\* outside the allow-set, and the empty / missing field.
TableInputs == { "LCD_master", "dongle_master", "users", "" }

\* The table field of an upload form: an allowed table, a name outside the
\* allow-set, and the empty / missing field.
UploadTableInputs == { "LCD_master", "users", "" }

\* app.js:71-74.
getSafeTableWrong(tableName) ==
    IF tableName = "" THEN Null ELSE tableName

getSafeTable(tableName) ==
    IF tableName = "" THEN Null
    ELSE IF tableName \in ALLOWED_TABLES THEN tableName ELSE Null

\* app.js:88-89. What SHOW COLUMNS answers for a table of the database (the
\* schema lives in the database): one table with every optional column, one
\* with none of them.
ShowColumns(safeTable) ==
    IF safeTable = "LCD_master"
    THEN << "id", "PN2", "inch", "supplier_id", "is_active", "created_at", "updated_at" >>
    ELSE << "id", "PN2", "created_at" >>

\* app.js:212.
IsInsertable(c) == c \notin { "id", "created_at", "updated_at" }
insertableColsOf(tableCols) == SelectSeq(tableCols, IsInsertable)

\* ------------------------------------------------------------ CSV inputs
\* csv-parse with columns: true, trim: true (app.js:218): every record is a
\* map from the header's field names to trimmed strings, and all records of
\* one file have the header's field names.
RowsPN2   == [ {"PN2"} -> {"", "A"} ]
RowsOther == [ {"memo"} -> {"x"} ]

SeqsUpTo(S, n) == UNION { [1..k -> S] : k \in 0..n }

\* The parsed files of at most n records: the records, or a parse failure.
CsvInputsUpTo(n) ==
    { [ok |-> TRUE, records |-> rs] : rs \in SeqsUpTo(RowsPN2, n) }
      \cup { [ok |-> TRUE, records |-> rs] : rs \in SeqsUpTo(RowsOther, n) }
      \cup { [ok |-> FALSE, records |-> << >>] }

\* Files whose one column is is_active, or inch (columns the coercion of
\* app.js:252-255 singles out): empty, the token NULL, numerals and other text.
RowsActive == [ {"is_active"} -> {"", "NULL", "0", "1", "2", "abc"} ]
RowsInch   == [ {"inch"} -> {"", "NULL", "1.5", "abc"} ]

TypedCsvInputsUpTo(n) ==
    { [ok |-> TRUE, records |-> rs] : rs \in SeqsUpTo(RowsActive, n) }
      \cup { [ok |-> TRUE, records |-> rs] : rs \in SeqsUpTo(RowsInch, n) }

CsvInputs      == CsvInputsUpTo(MaxRecords)
TypedCsvInputs == TypedCsvInputsUpTo(MaxTypedRecords)
StoreCsvInputs == CsvInputsUpTo(MaxStoreRecords)
PairCsvInputs  == CsvInputsUpTo(MaxPairRecords)


\* ------------------------------------------------------- the import's row
\* app.js:237.
colsToUseOf(insertableCols, row) ==
    SelectSeq(insertableCols, LAMBDA col : col \in DOMAIN row)

\* A JavaScript number: an integer, a number with a fraction, or NaN.
JsInt(n) == [num |-> "int", n |-> n]
JsFrac   == [num |-> "frac", n |-> 0]
NaN      == [num |-> "NaN", n |-> 0]

\* The null a handler binds into a statement, and SQL's NULL.
JsNull == [num |-> "null", n |-> 0]

\* A string a handler binds into a statement, and a text value of a row.
JsText(v) == [num |-> "text", n |-> 0, text |-> v]

\* Number(v) (app.js:159, 252, 255, 348) on the strings the inputs carry, as
\* ECMAScript's StringToNumber reads them: surrounding white space is dropped,
\* the empty string is 0, a sign, a fraction and an exponent are accepted, and
\* any other text is NaN.
NumericStrings ==
    ("" :> JsInt(0)) @@ ("0" :> JsInt(0)) @@ ("1" :> JsInt(1)) @@ ("2" :> JsInt(2))
      @@ ("-5" :> JsInt(-5)) @@ ("1e3" :> JsInt(1000)) @@ (" 7 " :> JsInt(7))
      @@ ("1.5" :> JsFrac)

JsNumber(v) == IF v \in DOMAIN NumericStrings THEN NumericStrings[v] ELSE NaN

\* Number.isInteger(x) (app.js:160, 349).
NumberIsInteger(x) == x.num = "int"

\* app.js:244-260.
CoerceValue(col, v) ==
    IF v = "" THEN JsNull
    ELSE IF v = "NULL" THEN JsNull
    ELSE IF col = "is_active" THEN JsNumber(v)
    ELSE IF col = "inch" THEN JsNumber(v)
    ELSE JsText(v)

valuesOf(cols, row) == [ k \in 1..Len(cols) |-> CoerceValue(cols[k], row[cols[k]]) ]

\* app.js:263-266. The parser has trimmed the field (trim: true), so the
\* trimmed text is empty exactly when the field is.
PN2Missing(row) == "PN2" \in DOMAIN row /\ row["PN2"] = ""

\* The messages of app.js:240, 265 and a database error's "code: message"
\* (app.js:283), in ASCII.
ReasonNoCols == "no CSV column matches a DB column"
ReasonPN2    == "PN2 is empty"
ReasonDb     == "ER_DUP_ENTRY: Duplicate entry"

\* app.js:239-241, 263-266: the reason the row fails before its INSERT, or
\* Null when the INSERT is to be executed.
ValidationError(insertableCols, row) ==
    IF Len(colsToUseOf(insertableCols, row)) = 0 THEN ReasonNoCols
    ELSE IF PN2Missing(row) THEN ReasonPN2
    ELSE Null

\* app.js:232.
rowNumberWrong(i) == i + 1

rowNumberOf(i) == i + 2

\* app.js:280-284: { ...row, __row, __reason }.
FailedEntry(row, rowNumber, reason) ==
    ("__row" :> rowNumber) @@ ("__reason" :> reason) @@ row

\* app.js:230, 279-286: the index the loop goes on with after record i
\* (0-based), whether or not the record failed.
nextIndexWrong(i, n, failed) == IF failed THEN n ELSE i + 1

nextIndexSkip(i, n, failed) == IF failed THEN i + 2 ELSE i + 1

nextIndex(i, n, failed) == i + 1

\* app.js:290.
shouldStoreWrong(failedRows) == Len(failedRows) >= 0

shouldStore(failedRows) == Len(failedRows) > 0

\* app.js:25.
isExpiredWrong(nowMs, createdAt) == nowMs - createdAt > SWEEP_INTERVAL_MS

isExpiredNever(nowMs, createdAt) == nowMs - createdAt > 2 * RETENTION_MS

isExpired(nowMs, createdAt) == nowMs - createdAt > RETENTION_MS


\* app.js:206, 224, 311: if (fs.existsSync(filePath)) fs.unlinkSync(filePath).
unlinkKeeps(files, r) == files

unlinkOnBadTable(files, r) == files \ {r}
unlinkAfterParse(files, r) == files \ {r}
unlinkOnError(files, r)    == files \ {r}

\* ------------------------------------------------------------------ state
VARIABLES
    now,                \* Date.now(), in milliseconds since the server started
    nextSweep,          \* when the setInterval callback of app.js:22 is due
    failedCsvStore,     \* app.js:19: download id -> { createdAt, table, rows }
    uuidCount,          \* the retrieval ids crypto.randomUUID() has issued
    tableColumnsCache,  \* app.js:80: table -> column names
    db,                 \* the rows the database holds, per table
    tmpFiles,           \* the upload requests whose temporary file exists
    up,                 \* the upload requests, by request
    lastGet,            \* the answer GET /masters/upload/failed/:id.csv sends in this instant
    reqLog,             \* the answers of the detail reads and the toggle calls, in order
    listAnswer,         \* the answer GET /masters gave last
    toggling            \* the toggle calls between their UPDATE and their SELECT

vars == << now, nextSweep, failedCsvStore, uuidCount, tableColumnsCache, db,
           tmpFiles, up, lastGet, reqLog, listAnswer, toggling >>

Uploads      == 1..MaxUploads
StoreUploads == 1..MaxStoreUploads
PairUploads  == 1..MaxPairUploads
AllUploads   == Uploads \cup StoreUploads \cup PairUploads

NoResult == [count |-> -1, okCount |-> -1, failedCount |-> -1, downloadId |-> 0]

\* An upload request that has not arrived yet. Beside the handler's locals a
\* request keeps what the database did for it: the records whose INSERT was
\* sent (inserts), those the database accepted (accepted), the number of
\* statements it sent (sql), when its batch was stored (storedAt), and the
\* INSERT statements in the order it sent them (sent).
IdleUpload ==
    [ pc |-> "idle", hasFile |-> FALSE, table |-> "", safeTable |-> Null,
      csv |-> [ok |-> FALSE, records |-> << >>], insertableCols |-> << >>,
      records |-> << >>, i |-> 0, okRows |-> << >>, failedRows |-> << >>,
      inserts |-> {}, accepted |-> {}, sql |-> 0, status |-> 0, result |-> NoResult,
      storedAt |-> -1, sent |-> << >> ]

NoGet == [id |-> 0, status |-> 0, table |-> Null, rows |-> << >>]

\* GET /masters has not been asked yet.
NoList == [status |-> 0, mastersData |-> << >>, queried |-> << >>]

\* The toggle calls one run can have in flight, and a call that is not.
Calls == 1..MaxCalls
IdleToggle == [pc |-> "idle", table |-> "", id |-> "", n |-> 0, wrote |-> JsNull]

\* The rows a table holds when the server starts; a row's id is its place.
SeedRows(t) ==
    IF t = "LCD_master"
    THEN << [cols |-> << "PN2", "is_active" >>, values |-> << JsText("P1"), JsInt(1) >>] >>
    ELSE IF t = "dongle_master"
    THEN << [cols |-> << "PN2" >>, values |-> << JsText("D1") >>] >>
    ELSE << >>

Init ==
    /\ now = 0
    /\ nextSweep = SWEEP_INTERVAL_MS
    /\ failedCsvStore = << >>
    /\ uuidCount = 0
    /\ tableColumnsCache = << >>
    /\ db = [t \in ALLOWED_TABLES |-> SeedRows(t)]
    /\ tmpFiles = {}
    /\ up = [r \in AllUploads |-> IdleUpload]
    /\ lastGet = NoGet
    /\ reqLog = << >>
    /\ listAnswer = NoList
    /\ toggling = [c \in Calls |-> IdleToggle]

\* Map.set and Map.delete on a function whose domain is the map's keys.
MapSet(m, k, v) == [x \in DOMAIN m \cup {k} |-> IF x = k THEN v ELSE m[x]]
MapKeep(m, keys) == [x \in keys |-> m[x]]

\* ------------------------------------------------- POST /masters/upload
\* app.js:195-211 (multer has written the temporary file before the handler
\* runs, when the request carries one).
UploadStartFrom(r, csvs) ==
    /\ up[r].pc = "idle"
    /\ \A q \in AllUploads : q < r => up[q].pc # "idle"
    /\ \/ /\ up' = [up EXCEPT ![r].pc = "done", ![r].status = 400]
          /\ UNCHANGED tmpFiles
       \/ \E table \in UploadTableInputs :
            /\ getSafeTable(table) = Null
            /\ tmpFiles' = unlinkOnBadTable(tmpFiles \cup {r}, r)
            /\ up' = [up EXCEPT ![r].pc = "done", ![r].hasFile = TRUE,
                                ![r].table = table, ![r].status = 400]
       \/ \E table \in UploadTableInputs, csv \in csvs :
            /\ getSafeTable(table) # Null
            /\ tmpFiles' = tmpFiles \cup {r}
            /\ up' = [up EXCEPT ![r].pc = "columns", ![r].hasFile = TRUE,
                                ![r].table = table,
                                ![r].safeTable = getSafeTable(table),
                                ![r].csv = csv]
    /\ lastGet' = NoGet
    /\ UNCHANGED << now, nextSweep, failedCsvStore, uuidCount, tableColumnsCache,
                    db, reqLog,
                    listAnswer, toggling >>

UploadStart(r)      == UploadStartFrom(r, CsvInputs)
UploadStartStore(r) == UploadStartFrom(r, StoreCsvInputs)
UploadStartPair(r)  == UploadStartFrom(r, PairCsvInputs)
UploadStartTyped(r) == UploadStartFrom(r, TypedCsvInputs)

\* app.js:211-212 with getTableColumns (app.js:82-92): the cached columns, or
\* a SHOW COLUMNS round trip that the database answers or fails; a failure
\* lands in the handler's catch (app.js:309-313). The cache lookup, the round
\* trip and the cache update are one step here.
UploadColumns(r) ==
    /\ up[r].pc = "columns"
    /\ LET t == up[r].safeTable IN
       \/ /\ t \in DOMAIN tableColumnsCache
          /\ up' = [up EXCEPT ![r].pc = "parse",
                              ![r].insertableCols = insertableColsOf(tableColumnsCache[t])]
          /\ UNCHANGED << tableColumnsCache, tmpFiles >>
       \/ /\ t \notin DOMAIN tableColumnsCache
          /\ tableColumnsCache' = MapSet(tableColumnsCache, t, ShowColumns(t))
          /\ up' = [up EXCEPT ![r].pc = "parse", ![r].sql = @ + 1,
                              ![r].insertableCols = insertableColsOf(ShowColumns(t))]
          /\ UNCHANGED tmpFiles
       \/ /\ t \notin DOMAIN tableColumnsCache
          /\ tmpFiles' = unlinkOnError(tmpFiles, r)
          /\ up' = [up EXCEPT ![r].pc = "done", ![r].sql = @ + 1, ![r].status = 500]
          /\ UNCHANGED tableColumnsCache
    /\ lastGet' = NoGet
    /\ UNCHANGED << now, nextSweep, failedCsvStore, uuidCount, db,
                    reqLog,
                    listAnswer, toggling >>

\* app.js:215-224: the file is parsed and then removed; a parse error rejects
\* the promise and lands in the catch (app.js:309-313).
UploadParse(r) ==
    /\ up[r].pc = "parse"
    /\ \/ /\ up[r].csv.ok
          /\ tmpFiles' = unlinkAfterParse(tmpFiles, r)
          /\ up' = [up EXCEPT ![r].pc = "rows", ![r].records = up[r].csv.records]
       \/ /\ ~up[r].csv.ok
          /\ tmpFiles' = unlinkOnError(tmpFiles, r)
          /\ up' = [up EXCEPT ![r].pc = "done", ![r].status = 500]
    /\ lastGet' = NoGet
    /\ UNCHANGED << now, nextSweep, failedCsvStore, uuidCount, tableColumnsCache,
                    db, reqLog,
                    listAnswer, toggling >>

\* app.js:230-286: one turn of the row loop. The INSERT is one round trip
\* that the database accepts or rejects.
UploadRow(r) ==
    /\ up[r].pc = "rows"
    /\ up[r].i < Len(up[r].records)
    /\ LET i    == up[r].i
           n    == Len(up[r].records)
           row  == up[r].records[i + 1]
           cols == colsToUseOf(up[r].insertableCols, row)
           err  == ValidationError(up[r].insertableCols, row)
       IN
       \/ /\ err # Null
          /\ up' = [up EXCEPT
                      ![r].failedRows = Append(@, FailedEntry(row, rowNumberOf(i), err)),
                      ![r].i = nextIndex(i, n, TRUE)]
          /\ UNCHANGED db
       \/ /\ err = Null
          /\ db' = [db EXCEPT ![up[r].safeTable] =
                        Append(@, [cols |-> cols, values |-> valuesOf(cols, row)])]
          /\ up' = [up EXCEPT
                      ![r].okRows = Append(@, row),
                      ![r].inserts = @ \cup {i + 1}, ![r].accepted = @ \cup {i + 1},
                      ![r].sql = @ + 1,
                      ![r].sent = Append(@, [record |-> i + 1, cols |-> cols,
                                             values |-> valuesOf(cols, row)]),
                      ![r].i = nextIndex(i, n, FALSE)]
       \/ /\ err = Null
          /\ up' = [up EXCEPT
                      ![r].failedRows = Append(@, FailedEntry(row, rowNumberOf(i), ReasonDb)),
                      ![r].inserts = @ \cup {i + 1}, ![r].sql = @ + 1,
                      ![r].sent = Append(@, [record |-> i + 1, cols |-> cols,
                                             values |-> valuesOf(cols, row)]),
                      ![r].i = nextIndex(i, n, TRUE)]
          /\ UNCHANGED db
    /\ lastGet' = NoGet
    /\ UNCHANGED << now, nextSweep, failedCsvStore, uuidCount, tableColumnsCache,
                    tmpFiles, reqLog,
                    listAnswer, toggling >>

\* app.js:288-307: the failed rows are stored under a fresh id and the result
\* page is rendered (the view is not part of src/ and is taken to render).
UploadFinish(r) ==
    /\ up[r].pc = "rows"
    /\ up[r].i >= Len(up[r].records)
    /\ LET stores == shouldStore(up[r].failedRows)
           downloadId == IF stores THEN uuidCount + 1 ELSE 0
       IN
       /\ uuidCount' = IF stores THEN uuidCount + 1 ELSE uuidCount
       /\ failedCsvStore' =
            IF stores
            THEN MapSet(failedCsvStore, downloadId,
                        [createdAt |-> now, table |-> up[r].safeTable,
                         rows |-> up[r].failedRows])
            ELSE failedCsvStore
       /\ up' = [up EXCEPT
                   ![r].pc = "done", ![r].status = 200,
                   ![r].storedAt = IF stores THEN now ELSE -1,
                   ![r].result = [count |-> Len(up[r].records),
                                  okCount |-> Len(up[r].okRows),
                                  failedCount |-> Len(up[r].failedRows),
                                  downloadId |-> downloadId]]
    /\ lastGet' = NoGet
    /\ UNCHANGED << now, nextSweep, tableColumnsCache, db, tmpFiles,
                    reqLog,
                    listAnswer, toggling >>

\* ------------------------------------------------ the retention store
\* Time passes, up to the instant the sweep is due.
Tick ==
    /\ now < MaxTime
    /\ now < nextSweep
    /\ now' = IF now + TickMs < nextSweep THEN now + TickMs ELSE nextSweep
    /\ lastGet' = NoGet
    /\ UNCHANGED << nextSweep, failedCsvStore, uuidCount, tableColumnsCache, db,
                    tmpFiles, up, reqLog,
                    listAnswer, toggling >>

\* app.js:22-27: the setInterval callback.
Sweep ==
    /\ now >= nextSweep
    /\ failedCsvStore' =
         MapKeep(failedCsvStore,
                 { k \in DOMAIN failedCsvStore :
                     ~isExpired(now, failedCsvStore[k].createdAt) })
    /\ nextSweep' = nextSweep + SWEEP_INTERVAL_MS
    /\ lastGet' = NoGet
    /\ UNCHANGED << now, uuidCount, tableColumnsCache, db, tmpFiles, up,
                    reqLog,
                    listAnswer, toggling >>

\* app.js:319-336: GET /masters/upload/failed/:id.csv. The answer carries the
\* batch's table (in the file name) and its rows (the CSV body).
GetFailedCsv(id) ==
    /\ lastGet' =
         IF id \in DOMAIN failedCsvStore
         THEN [id |-> id, status |-> 200,
               table |-> failedCsvStore[id].table, rows |-> failedCsvStore[id].rows]
         ELSE [id |-> id, status |-> 404, table |-> Null, rows |-> << >>]
    /\ UNCHANGED << now, nextSweep, failedCsvStore, uuidCount, tableColumnsCache,
                    db, tmpFiles, up, reqLog,
                    listAnswer, toggling >>

\* The import pipeline alone: the clock stands still.
Next ==
    \/ \E r \in Uploads : UploadStart(r)
    \/ \E r \in Uploads : UploadColumns(r)
    \/ \E r \in Uploads : UploadParse(r)
    \/ \E r \in Uploads : UploadRow(r)
    \/ \E r \in Uploads : UploadFinish(r)

Spec == Init /\ [][Next]_vars

\* The import pipeline with the clock, the sweep timer and the download route.
NextStore ==
    \/ \E r \in StoreUploads : UploadStartStore(r)
    \/ \E r \in StoreUploads : UploadColumns(r)
    \/ \E r \in StoreUploads : UploadParse(r)
    \/ \E r \in StoreUploads : UploadRow(r)
    \/ \E r \in StoreUploads : UploadFinish(r)
    \/ Tick
    \/ Sweep
    \/ \E id \in StoreUploads : GetFailedCsv(id)

SpecStore == Init /\ [][NextStore]_vars

\* The import of files whose column the coercion singles out.
NextTyped ==
    \/ \E r \in Uploads : UploadStartTyped(r)
    \/ \E r \in Uploads : UploadColumns(r)
    \/ \E r \in Uploads : UploadParse(r)
    \/ \E r \in Uploads : UploadRow(r)
    \/ \E r \in Uploads : UploadFinish(r)

SpecTyped == Init /\ [][NextTyped]_vars

\* Imports that interleave at their awaits; the clock stands still.
NextPair ==
    \/ \E r \in PairUploads : UploadStartPair(r)
    \/ \E r \in PairUploads : UploadColumns(r)
    \/ \E r \in PairUploads : UploadParse(r)
    \/ \E r \in PairUploads : UploadRow(r)
    \/ \E r \in PairUploads : UploadFinish(r)

SpecPair == Init /\ [][NextPair]_vars


\* ------------------------------------- the detail read and the toggle call
\* The ids a client sends: a plain id, and the negative, fractional,
\* non-numeric, exponent and white-space padded forms; "" is a missing field.
IdInputs == { "1", "-5", "1.5", "abc", "1e3", " 7 ", "" }

\* app.js:64 makes ALLOWED_TABLES a Set, and a Set has no method "includes":
\* ALLOWED_TABLES.includes(table) (app.js:98, 155, 346) throws a TypeError
\* whatever the table is. (The superseded copy, app.js:427, had an array.)
allowedTablesIncludes(table) == [threw |-> TRUE, value |-> FALSE]

\* Both handlers are async functions and call includes outside their try
\* block, so the TypeError rejects the promise the handler returned: Express 5
\* answers 500, Express 4 leaves the rejection unhandled and never answers.
NoResponse == 0
UnhandledOutcomes == { 500, NoResponse }

HasColumn(table, col) ==
    \E k \in 1..Len(ShowColumns(table)) : ShowColumns(table)[k] = col

RowExists(table, n) == n \in 1..Len(db[table])

\* The is_active value of row n (NULL when the INSERT gave none).
IsActiveOf(row) ==
    IF \E k \in 1..Len(row.cols) : row.cols[k] = "is_active"
    THEN row.values[CHOOSE k \in 1..Len(row.cols) : row.cols[k] = "is_active"]
    ELSE JsNull

\* app.js:354: SET is_active = IF(is_active = 1, 0, 1).
Flipped(v) == IF v = JsInt(1) THEN JsInt(0) ELSE JsInt(1)

Answer(route, table, id, status, sql, isActive) ==
    [ route |-> route, table |-> table, id |-> id, status |-> status,
      sql |-> sql, is_active |-> isActive ]

Logged(log, a) == Append(log, a)

\* The value a row holds in a column (NULL when its INSERT named no such
\* column).
FieldOf(row, col) ==
    IF \E k \in 1..Len(row.cols) : row.cols[k] = col
    THEN row.values[CHOOSE k \in 1..Len(row.cols) : row.cols[k] = col]
    ELSE JsNull

ColumnSet(cols) == { cols[k] : k \in 1..Len(cols) }

\* app.js:105-125: the columns of the listed table that the generated SELECT
\* names. id, PN2 and is_active are named whatever the table has; inch and
\* supplier_id (in the join) only when the table has them.
selectedColumns(cols) ==
    { "id", "PN2", "is_active" }
      \cup (IF "inch" \in ColumnSet(cols) THEN { "inch" } ELSE {})
      \cup (IF "supplier_id" \in ColumnSet(cols) THEN { "supplier_id" } ELSE {})

\* app.js:109-113: the LEFT JOIN's s.name (no row of the model has a supplier).
SupplierName(supplierId) == IF supplierId = JsNull THEN JsNull ELSE "supplier"

\* app.js:117-122: row k of the answer, for a table with columns cols.
ListRow(table, cols, k) ==
    [ id            |-> k,
      label         |-> FieldOf(db[table][k], "PN2"),
      inch          |-> IF "inch" \in ColumnSet(cols)
                        THEN FieldOf(db[table][k], "inch") ELSE JsNull,
      supplier_name |-> IF "supplier_id" \in ColumnSet(cols)
                        THEN SupplierName(FieldOf(db[table][k], "supplier_id"))
                        ELSE JsNull,
      is_active     |-> FieldOf(db[table][k], "is_active") ]

\* app.js:96-130: fetchMasterList. The allow-list test throws (app.js:98);
\* past it, the database rejects a SELECT that names a column the table does
\* not have, and otherwise answers the rows in id order.
fetchMasterList(tableName) ==
    LET inc  == allowedTablesIncludes(tableName)
        cols == ShowColumns(tableName)
    IN
    IF inc.threw \/ ~inc.value
    THEN [ ok |-> FALSE, asked |-> FALSE, columns |-> {}, rows |-> << >> ]
    ELSE IF ~(selectedColumns(cols) \subseteq ColumnSet(cols))
    THEN [ ok |-> FALSE, asked |-> TRUE, columns |-> selectedColumns(cols),
           rows |-> << >> ]
    ELSE [ ok |-> TRUE, asked |-> TRUE, columns |-> selectedColumns(cols),
           rows |-> [k \in 1..Len(db[tableName]) |-> ListRow(tableName, cols, k)] ]

\* app.js:135-149: GET /masters. Promise.all over MASTERS rejects as soon as
\* one fetchMasterList does, and the handler's catch answers 500. The fetches
\* only read; what they leave behind is the column cache.
GetMasters ==
    LET res == [t \in ALLOWED_TABLES |-> fetchMasterList(t)] IN
    /\ listAnswer' =
         IF \A t \in ALLOWED_TABLES : res[t].ok
         THEN [ status |-> 200,
                mastersData |-> [t \in ALLOWED_TABLES |-> res[t].rows],
                queried |-> [t \in ALLOWED_TABLES |-> res[t].columns] ]
         ELSE [ status |-> 500, mastersData |-> << >>,
                queried |-> [t \in ALLOWED_TABLES |-> res[t].columns] ]
    /\ tableColumnsCache' =
         [t \in DOMAIN tableColumnsCache \cup { x \in ALLOWED_TABLES : res[x].asked } |->
            IF t \in DOMAIN tableColumnsCache THEN tableColumnsCache[t]
            ELSE ShowColumns(t)]
    /\ UNCHANGED << now, nextSweep, failedCsvStore, uuidCount, db, tmpFiles, up,
                    lastGet, reqLog, toggling >>

\* app.js:152-179: GET /masters/:table/:id. The answers the handler can give.
detailAnswers(table, id) ==
    LET inc == allowedTablesIncludes(table)
        safeId == JsNumber(id)
    IN
    IF inc.threw
    THEN { Answer("detail", table, id, o, 0, JsNull) : o \in UnhandledOutcomes }
    ELSE IF ~inc.value
    THEN { Answer("detail", table, id, 400, 0, JsNull) }
    ELSE IF ~NumberIsInteger(safeId)
    THEN { Answer("detail", table, id, 400, 0, JsNull) }
    ELSE { Answer("detail", table, id,
                  IF RowExists(table, safeId.n) THEN 200 ELSE 404, 1, JsNull),
           Answer("detail", table, id, 500, 1, JsNull) }

\* The calls that have arrived and are not answered yet.
InFlight == { c \in Calls : toggling[c].pc # "idle" }

DetailRead(table, id) ==
    /\ Len(reqLog) + Cardinality(InFlight) < MaxCalls
    /\ \E a \in detailAnswers(table, id) : reqLog' = Logged(reqLog, a)
    /\ UNCHANGED << now, nextSweep, failedCsvStore, uuidCount, tableColumnsCache,
                    db, tmpFiles, up, lastGet,
                    listAnswer, toggling >>

\* app.js:342-373: POST /toggle-active. Whether the call gets as far as its
\* UPDATE, and the answers it can give when it does not.
toggleReachesUpdate(table, id) ==
    /\ table # "" /\ id # ""
    /\ ~allowedTablesIncludes(table).threw
    /\ allowedTablesIncludes(table).value
    /\ NumberIsInteger(JsNumber(id))

toggleRefusals(table, id) ==
    IF table = "" \/ id = ""
    THEN { Answer("toggle", table, id, 400, 0, JsNull) }
    ELSE IF allowedTablesIncludes(table).threw
    THEN { Answer("toggle", table, id, o, 0, JsNull) : o \in UnhandledOutcomes }
    ELSE { Answer("toggle", table, id, 400, 0, JsNull) }

\* The row with the value v in column col.
SetField(row, col, v) ==
    IF \E k \in 1..Len(row.cols) : row.cols[k] = col
    THEN [row EXCEPT !.values[CHOOSE k \in 1..Len(row.cols) : row.cols[k] = col] = v]
    ELSE [cols |-> Append(row.cols, col), values |-> Append(row.values, v)]

\* The answer of a call that sent its UPDATE, with the value the UPDATE wrote.
ToggleAnswer(table, id, status, sql, isActive, wrote) ==
    Answer("toggle", table, id, status, sql, isActive) @@ ("wrote" :> wrote)

\* What a round trip to the database can come to.
DbOutcomes == { "ok", "error" }

\* app.js:342-361: the call from its arrival to the result of its UPDATE. A
\* call the checks refuse is answered at once; an UPDATE that names a column
\* the table lacks, or that fails, lands in the catch (app.js:369-372); one
\* that matches no row is answered 404; otherwise the row is flipped and the
\* call waits for its SELECT.
ToggleUpdate(c, table, id) ==
    IF ~toggleReachesUpdate(table, id)
    THEN /\ \E a \in toggleRefusals(table, id) : reqLog' = Logged(reqLog, a)
         /\ UNCHANGED << db, toggling >>
    ELSE LET n == JsNumber(id).n IN
         IF ~HasColumn(table, "is_active")
         THEN /\ reqLog' = Logged(reqLog, ToggleAnswer(table, id, 500, 1, JsNull, JsNull))
              /\ UNCHANGED << db, toggling >>
         ELSE IF ~RowExists(table, n)
         THEN /\ reqLog' = Logged(reqLog, ToggleAnswer(table, id, 404, 1, JsNull, JsNull))
              /\ UNCHANGED << db, toggling >>
         ELSE \E o \in DbOutcomes :
                IF o = "error"
                THEN /\ reqLog' = Logged(reqLog, ToggleAnswer(table, id, 500, 1, JsNull, JsNull))
                     /\ UNCHANGED << db, toggling >>
                ELSE LET v == Flipped(IsActiveOf(db[table][n])) IN
                     /\ db' = [db EXCEPT ![table][n] = SetField(@, "is_active", v)]
                     /\ toggling' = [toggling EXCEPT ![c] =
                                       [pc |-> "select", table |-> table, id |-> id,
                                        n |-> n, wrote |-> v]]
                     /\ UNCHANGED reqLog

\* app.js:363-368: the SELECT of a call whose UPDATE matched, and the answer
\* with the value it reads.
ToggleReadBack(c) ==
    /\ toggling[c].pc = "select"
    /\ LET t == toggling[c] IN
       \E o \in DbOutcomes :
         reqLog' = Logged(reqLog,
                     IF o = "error"
                     THEN ToggleAnswer(t.table, t.id, 500, 2, JsNull, t.wrote)
                     ELSE ToggleAnswer(t.table, t.id, 200, 2,
                                       IsActiveOf(db[t.table][t.n]), t.wrote))
    /\ toggling' = [toggling EXCEPT ![c] = IdleToggle]
    /\ UNCHANGED db

\* app.js:342-373: POST /toggle-active, one step of call c: its arrival (in
\* the lowest free place) up to the first await's result, or its resumption
\* after the UPDATE. Other requests run between the two.
ToggleActive(c) ==
    /\ IF toggling[c].pc = "idle"
       THEN /\ Len(reqLog) + Cardinality(InFlight) < MaxCalls
            /\ \A q \in Calls : q < c => toggling[q].pc # "idle"
            /\ \E table \in TableInputs, id \in IdInputs : ToggleUpdate(c, table, id)
       ELSE ToggleReadBack(c)
    /\ UNCHANGED << now, nextSweep, failedCsvStore, uuidCount, tableColumnsCache,
                    tmpFiles, up, lastGet, listAnswer >>

\* The request intake: the list, the detail read, the toggle call, and the
\* upload up to its column lookup.
NextReq ==
    \/ \E table \in TableInputs \ {""}, id \in IdInputs \ {""} : DetailRead(table, id)
    \/ \E c \in Calls : ToggleActive(c)
    \/ GetMasters
    \/ \E r \in Uploads : UploadStartStore(r)
    \/ \E r \in Uploads : UploadColumns(r)

SpecReq == Init /\ [][NextReq]_vars


\* ================================================================ claims
\* An import that ran to its result page.
Completed(r) == up[r].pc = "done" /\ up[r].status = 200

\* The line numbers of the failed rows of import r.
FailedLines(r) == { up[r].failedRows[k]["__row"] : k \in 1..Len(up[r].failedRows) }

\* The records of import r, among the first i, that pass the checks made
\* before the INSERT.
ValidUpTo(r, i) ==
    { j \in 1..i : ValidationError(up[r].insertableCols, up[r].records[j]) = Null }

\* C1 as stated: when record k of an import has failed, the INSERT of every
\* later record is still attempted and an accepted one is counted.
C1_Original ==
    \A r \in Uploads : Completed(r) =>
        \A k \in 1..Len(up[r].records) : (k + 1) \in FailedLines(r) =>
            \A j \in (k + 1)..Len(up[r].records) :
                /\ j \in up[r].inserts
                /\ Len(up[r].okRows) = Cardinality(up[r].accepted)

\* C1 (amended): a failed record never stops the loop. Every record up to the
\* loop's index has been processed exactly once whatever failed before it;
\* its INSERT was sent unless the record itself fails the checks made before
\* the INSERT (no matching column, empty PN2); the succeeded list holds
\* exactly the records the database accepted, in order; and an import that
\* completed has processed all of its records.
C1_RowIsolation ==
    \A r \in Uploads : (up[r].pc = "rows" \/ Completed(r)) =>
        LET i == up[r].i IN
        /\ i <= Len(up[r].records)
        /\ Completed(r) => i = Len(up[r].records)
        /\ Len(up[r].okRows) + Len(up[r].failedRows) = i
        /\ up[r].inserts = ValidUpTo(r, i)
        /\ up[r].accepted \subseteq up[r].inserts
        /\ Len(up[r].okRows) = Cardinality(up[r].accepted)
        /\ FailedLines(r) = { j + 1 : j \in (1..i) \ up[r].accepted }

\* An import whose first record failed and whose later record was inserted
\* and counted.
C1_Witness ==
    \E r \in Uploads :
        /\ Completed(r)
        /\ 2 \in FailedLines(r)
        /\ \E j \in 2..Len(up[r].records) : j \in up[r].accepted
        /\ Len(up[r].okRows) >= 1

\* Record k is the only one with an empty PN2 and the database accepted the
\* INSERT of every other record.
OnlyRowKEmpty(r, k) ==
    /\ k \in 1..Len(up[r].records)
    /\ "PN2" \in DOMAIN up[r].records[k]
    /\ up[r].records[k]["PN2"] = ""
    /\ up[r].accepted = (1..Len(up[r].records)) \ {k}

\* C2: an import of N rows of which exactly row k has an empty PN2, every
\* other row being inserted, reports count N, okCount N-1, failedCount 1, and
\* the stored failure list has exactly one entry, with line number k+1.
C2_OneEmptyRow ==
    \A r \in Uploads : Completed(r) =>
        \A k \in 1..Len(up[r].records) : OnlyRowKEmpty(r, k) =>
            /\ up[r].result.count = Len(up[r].records)
            /\ up[r].result.okCount = Len(up[r].records) - 1
            /\ up[r].result.failedCount = 1
            /\ up[r].result.downloadId \in DOMAIN failedCsvStore
            /\ Len(failedCsvStore[up[r].result.downloadId].rows) = 1
            /\ failedCsvStore[up[r].result.downloadId].rows[1]["__row"] = k + 1

\* A three-row import whose second row alone has an empty PN2.
C2_Witness ==
    \E r \in Uploads :
        /\ Completed(r)
        /\ Len(up[r].records) = 3
        /\ OnlyRowKEmpty(r, 2)
        /\ up[r].result.failedCount = 1

\* C3: once an upload that carried a file has been answered, its temporary
\* file no longer exists, whatever the exit path.
C3_TempFileRemoved ==
    \A r \in Uploads : (up[r].pc = "done" /\ up[r].hasFile) => r \notin tmpFiles

\* An upload answered 500 after its CSV failed to parse, its file removed.
C3_Witness ==
    \E r \in Uploads :
        /\ up[r].pc = "done" /\ up[r].hasFile /\ up[r].status = 500
        /\ ~up[r].csv.ok
        /\ Len(up[r].insertableCols) > 0
        /\ r \notin tmpFiles


\* Import r stored a failed-row batch (under the id it reported).
Stored(r) == up[r].pc = "done" /\ up[r].result.downloadId # 0

\* The batch import r handed to the store.
BatchOf(r) ==
    [createdAt |-> up[r].storedAt, table |-> up[r].safeTable, rows |-> up[r].failedRows]

\* When the sweep last ran (the timer fires on time), or -1 before its first run.
LastSweepAt == IF nextSweep > SWEEP_INTERVAL_MS THEN nextSweep - SWEEP_INTERVAL_MS ELSE -1

\* C7 as stated: a get made later than the batch's creation time plus the
\* retention window returns absent.
C7_Original ==
    \A r \in StoreUploads :
        (/\ Stored(r)
         /\ lastGet.id = up[r].result.downloadId
         /\ now > up[r].storedAt + RETENTION_MS)
        => lastGet.status = 404

\* C7 (amended): once a sweep has run later than the batch's creation time
\* plus the retention window, the store no longer holds the batch and every
\* get with its id returns absent. (Until that sweep, a get still returns it.)
C7_AbsentAfterSweep ==
    \A r \in StoreUploads :
        (Stored(r) /\ LastSweepAt > up[r].storedAt + RETENTION_MS) =>
            /\ up[r].result.downloadId \notin DOMAIN failedCsvStore
            /\ lastGet.id = up[r].result.downloadId => lastGet.status = 404

\* A get of a batch that was stored, after the sweep that evicted it.
C7_Witness ==
    \E r \in StoreUploads :
        /\ Stored(r)
        /\ LastSweepAt > up[r].storedAt + RETENTION_MS
        /\ lastGet.id = up[r].result.downloadId
        /\ lastGet.status = 404

\* C8: until the retention window has elapsed, the store holds the batch an
\* import stored, unaltered, and every get with its id returns the table and
\* the failed rows that were stored, whatever sweeps, other imports or gets
\* came in between.
C8_GetReturnsStored ==
    \A r \in StoreUploads :
        (Stored(r) /\ now - up[r].storedAt <= RETENTION_MS) =>
            /\ up[r].result.downloadId \in DOMAIN failedCsvStore
            /\ failedCsvStore[up[r].result.downloadId] = BatchOf(r)
            /\ lastGet.id = up[r].result.downloadId =>
                 /\ lastGet.status = 200
                 /\ lastGet.table = up[r].safeTable
                 /\ lastGet.rows = up[r].failedRows

\* A get that returns a batch nine minutes old, after sweeps have run and
\* after another import has stored a batch of its own.
C8_Witness ==
    \E r, q \in StoreUploads :
        /\ r # q /\ Stored(r) /\ Stored(q)
        /\ up[q].storedAt > up[r].storedAt
        /\ now - up[r].storedAt >= RETENTION_MS - SWEEP_INTERVAL_MS
        /\ now - up[r].storedAt <= RETENTION_MS
        /\ lastGet.id = up[r].result.downloadId
        /\ lastGet.status = 200
        /\ lastGet.rows = up[r].failedRows

\* C10: a batch is stored and a retrieval id reported exactly when the import
\* has a failed row. Every batch of the store has a non-empty row list; an
\* import reports the id of a batch exactly when it has failed rows, and one
\* with none reports zero failures and no id; and the store has been given
\* exactly one batch per completed import that has failed rows.
C10_BatchIffFailures ==
    /\ \A id \in DOMAIN failedCsvStore : Len(failedCsvStore[id].rows) > 0
    /\ \A r \in StoreUploads : Completed(r) =>
         /\ up[r].result.failedCount = Len(up[r].failedRows)
         /\ (up[r].result.downloadId # 0) <=> (Len(up[r].failedRows) > 0)
         /\ Len(up[r].records) = 0 =>
              (up[r].result.okCount = 0 /\ up[r].result.failedCount = 0)
    /\ \A r \in StoreUploads : ~Completed(r) => up[r].result.downloadId = 0
    /\ uuidCount = Cardinality({ r \in StoreUploads : Stored(r) })
    /\ DOMAIN failedCsvStore \subseteq { up[r].result.downloadId : r \in StoreUploads } \ {0}

\* An import of zero records has completed with no id, another import has
\* completed with one failed row, and the store holds the latter's batch only.
C10_Witness ==
    \E r, q \in StoreUploads :
        /\ Completed(r) /\ Len(up[r].records) = 0 /\ up[r].result.downloadId = 0
        /\ Completed(q) /\ Len(up[q].failedRows) = 1
        /\ DOMAIN failedCsvStore = { up[q].result.downloadId }


\* The ids that are a well-formed non-negative integer: digits only.
WellFormedIds == { "0", "1", "2" }

\* C4 as stated: on the detail read, the toggle call and the upload intake, a
\* table name outside the allow-set is answered 400 and no database statement
\* is executed for the request.
C4_Original ==
    /\ \A k \in DOMAIN reqLog :
         reqLog[k].table \notin ALLOWED_TABLES =>
            (reqLog[k].status = 400 /\ reqLog[k].sql = 0)
    /\ \A r \in Uploads :
         (up[r].pc = "done" /\ up[r].hasFile /\ up[r].table \notin ALLOWED_TABLES) =>
            (up[r].status = 400 /\ up[r].sql = 0)

\* C5 as stated: two successive toggle calls on an existing row of a table
\* with an is_active column return complementary flag values and leave the
\* row with its original value.
C5_Original ==
    (/\ Len(reqLog) = 2
     /\ reqLog[1].route = "toggle" /\ reqLog[2].route = "toggle"
     /\ reqLog[1].table = reqLog[2].table /\ reqLog[1].id = reqLog[2].id
     /\ reqLog[1].table \in ALLOWED_TABLES
     /\ HasColumn(reqLog[1].table, "is_active")
     /\ reqLog[1].id = "1" /\ RowExists(reqLog[1].table, 1))
    => /\ reqLog[1].status = 200 /\ reqLog[2].status = 200
       /\ { reqLog[1].is_active, reqLog[2].is_active } = { JsInt(0), JsInt(1) }
       /\ IsActiveOf(db[reqLog[1].table][1]) = IsActiveOf(SeedRows(reqLog[1].table)[1])

\* C6 as stated: a toggle call on an allowed table without an is_active
\* column is answered with a client error and sends no UPDATE.
C6_Original ==
    \A k \in DOMAIN reqLog :
        (/\ reqLog[k].route = "toggle"
         /\ reqLog[k].table \in ALLOWED_TABLES
         /\ ~HasColumn(reqLog[k].table, "is_active"))
        => (reqLog[k].status = 400 /\ reqLog[k].sql = 0)

\* C9 as stated: the detail read and the toggle call answer every id that is
\* not a well-formed non-negative integer with a client error and without a
\* database round trip, and go to the database only for a well-formed one.
C9_Original ==
    \A k \in DOMAIN reqLog :
        /\ reqLog[k].id \notin WellFormedIds =>
             (reqLog[k].status = 400 /\ reqLog[k].sql = 0)
        /\ reqLog[k].sql > 0 => reqLog[k].id \in WellFormedIds

\* The fields of a row of the list.
ListFields == { "id", "label", "inch", "supplier_name", "is_active" }

\* C11 as stated: GET /masters succeeds and, for every allowed table, answers
\* rows of the one shape {id, label, inch, supplier_name, is_active} in
\* ascending id order, with null for a field whose column the table lacks,
\* and the query it generated names only columns the table has.
C11_Original ==
    listAnswer # NoList =>
        /\ listAnswer.status = 200
        /\ \A t \in ALLOWED_TABLES :
             LET rows == listAnswer.mastersData[t]
                 cols == ColumnSet(ShowColumns(t))
             IN
             /\ listAnswer.queried[t] \subseteq cols
             /\ Len(rows) = Len(db[t])
             /\ \A k \in 1..Len(rows) :
                  /\ DOMAIN rows[k] = ListFields
                  /\ rows[k].id = k
                  /\ "PN2" \notin cols => rows[k].label = JsNull
                  /\ "inch" \notin cols => rows[k].inch = JsNull
                  /\ "supplier_id" \notin cols => rows[k].supplier_name = JsNull
                  /\ "is_active" \notin cols => rows[k].is_active = JsNull

\* C12 as stated: a toggle call on an existing row of a table that has the
\* flag, unless the database fails it, returns the flag value its own UPDATE
\* wrote, whatever other calls on the row ran around it.
C12_Original ==
    \A k \in DOMAIN reqLog :
        (/\ reqLog[k].route = "toggle"
         /\ reqLog[k].table \in ALLOWED_TABLES
         /\ HasColumn(reqLog[k].table, "is_active")
         /\ reqLog[k].id \in WellFormedIds
         /\ RowExists(reqLog[k].table, JsNumber(reqLog[k].id).n)
         /\ (reqLog[k].sql = 0 \/ reqLog[k].status # 500))
        => /\ reqLog[k].status = 200
           /\ reqLog[k].is_active = reqLog[k].wrote

\* The values a number, as the database knows numbers, can be bound as.
IsSqlNumber(b) == b.num \in { "int", "frac" }

\* C13 as stated: of every value the import binds into an INSERT, an empty
\* field or the token NULL is bound as null; otherwise a value of is_active
\* is bound as the integer 0 or 1, a value of inch as a number or null, and
\* any other value as the field's text, unchanged.
C13_Original ==
    \A r \in Uploads : \A s \in DOMAIN up[r].sent :
        LET st == up[r].sent[s] IN
        \A k \in DOMAIN st.cols :
            LET col == st.cols[k]
                v   == up[r].records[st.record][col]
                b   == st.values[k]
            IN
            IF v = "" \/ v = "NULL" THEN b = JsNull
            ELSE IF col = "is_active" THEN b \in { JsInt(0), JsInt(1) }
            ELSE IF col = "inch" THEN IsSqlNumber(b) \/ b = JsNull
            ELSE b = JsText(v)

\* The records (by place in the file, from 1) of import r's failed list.
FailedRecords(r) == { up[r].failedRows[k]["__row"] - 1 : k \in 1..Len(up[r].failedRows) }

\* The k-th smallest member of a set of numbers.
KthOf(S, k) == CHOOSE j \in S : Cardinality({ x \in S : x <= j }) = k

\* C14: when an import completes, also one that ran interleaved with others,
\* every record of its own file is in exactly one of its two lists, once: the
\* succeeded list is the accepted records in file order, the failed list the
\* other records in file order, each with its fields and the line number
\* place + 1 (0-based index + 2), all line numbers distinct; the counts
\* reported are the lists' lengths and add up to the number of records; and
\* no record's INSERT was sent twice.
C14_EachRecordOnce ==
    \A r \in PairUploads : Completed(r) =>
        LET n  == Len(up[r].records)
            ok == up[r].okRows
            fl == up[r].failedRows
        IN
        /\ up[r].result.count = n
        /\ up[r].result.okCount = Len(ok)
        /\ up[r].result.failedCount = Len(fl)
        /\ up[r].result.okCount + up[r].result.failedCount = up[r].result.count
        /\ up[r].accepted \cup FailedRecords(r) = 1..n
        /\ up[r].accepted \cap FailedRecords(r) = {}
        /\ Len(ok) = Cardinality(up[r].accepted)
        /\ \A k \in 1..Len(ok) : ok[k] = up[r].records[KthOf(up[r].accepted, k)]
        /\ Len(fl) = Cardinality(FailedRecords(r))
        /\ \A k \in 1..Len(fl) :
             /\ fl[k]["__row"] - 1 = KthOf(FailedRecords(r), k)
             /\ \A f \in DOMAIN up[r].records[fl[k]["__row"] - 1] :
                  fl[k][f] = up[r].records[fl[k]["__row"] - 1][f]
        /\ \A k, l \in 1..Len(fl) : k < l => fl[k]["__row"] < fl[l]["__row"]
        /\ \A a, b \in DOMAIN up[r].sent :
             a # b => up[r].sent[a].record # up[r].sent[b].record
        /\ Len(up[r].sent) = Cardinality(up[r].inserts)

\* Two imports of two records each, of different files, have completed, the
\* one that arrived later first; each has one succeeded and one failed record.
C14_Witness ==
    \E r, q \in PairUploads :
        /\ r < q /\ Completed(r) /\ Completed(q)
        /\ up[r].records # up[q].records
        /\ Len(up[r].records) = 2 /\ Len(up[q].records) = 2
        /\ Len(up[r].okRows) = 1 /\ Len(up[r].failedRows) = 1
        /\ Len(up[q].okRows) = 1 /\ Len(up[q].failedRows) = 1
        /\ up[q].result.downloadId = 1 /\ up[r].result.downloadId = 2

====
